---- MODULE Spec2Model ----
(***************************************************************************)
(* Model of src/msg_cb.py, the commit-message callback                     *)
(*                                                                         *)
(*   def message_callback(commit):                                         *)
(*       import re                                                         *)
(*       msg = commit.message.decode('utf-8', errors='ignore')             *)
(*       new = re.sub(r'(?i)\bmilo\b', 'cleanup', msg)                     *)
(*       commit.message = new.encode('utf-8')                              *)
(*                                                                         *)
(* Bytes are the integers 0..255, a text is a sequence of code points.     *)
(* The UTF-8 codec and the regular-expression engine are modelled by what  *)
(* CPython does: the decoder's error handling, the engine's word class,    *)
(* its case-insensitive literal comparison and its search-and-splice sub.  *)
(* The character tables (IsWordChar, ToLower) are exact for the code       *)
(* points up to U+017F and for U+FFFD; the messages the specifications     *)
(* draw decode to code points of that range only.                          *)
(***************************************************************************)
EXTENDS Integers, Sequences, FiniteSets, TLC

(***************************************************************************)
(* Bounds of the model.                                                    *)
(***************************************************************************)
\* A message is the concatenation of at most MaxChunks chunks of Chunks.
MaxChunks == 4

(***************************************************************************)
(* The literals of the source.                                             *)
(***************************************************************************)
\* 'milo', the literal of the pattern r'(?i)\bmilo\b'
Target == <<109, 105, 108, 111>>

\* a replacement that contains the target: 'ex-milo'
ReplacementWithTarget == <<101, 120, 45, 109, 105, 108, 111>>

\* 'cleanup', the replacement string
Replacement == <<99, 108, 101, 97, 110, 117, 112>>

\* the inline flag (?i) of the pattern
IgnoreCaseOff == FALSE

IgnoreCase == TRUE

\* the \b before and after the literal
WordBoundedOff == FALSE

WordBounded == TRUE

\* errors='ignore' of the decode
ErrorsReplace == "replace"

ErrorsStrict == "strict"

ErrorsPolicy == "ignore"

(***************************************************************************)
(* bytes.decode('utf-8', errors=...)                                       *)
(***************************************************************************)
IsContinuation(b) == b >= 128 /\ b <= 191

\* The second byte of a 3- or 4-byte sequence: a continuation byte, in the
\* narrower range that excludes overlong forms (E0, F0), surrogates (ED) and
\* code points above U+10FFFF (F4).
SecondOk(b0, b1) ==
    /\ IsContinuation(b1)
    /\ (b0 = 224 => b1 >= 160)
    /\ (b0 = 237 => b1 <= 159)
    /\ (b0 = 240 => b1 >= 144)
    /\ (b0 = 244 => b1 <= 143)

\* One step of the decoder at position p (1-based) of bytes b: either a
\* character (ok, its code point cp, adv bytes consumed) or an error that
\* covers adv bytes (invalid start byte, invalid continuation byte,
\* unexpected end of data).
DecodeAt(b, p) ==
    LET n  == Len(b)
        b0 == b[p]
        Err(k) == [ok |-> FALSE, cp |-> 0, adv |-> k]
        Chr(c, k) == [ok |-> TRUE, cp |-> c, adv |-> k]
    IN  IF b0 < 128 THEN Chr(b0, 1)
        ELSE IF b0 >= 194 /\ b0 <= 223 THEN
            IF p + 1 > n THEN Err(1)
            ELSE IF ~IsContinuation(b[p + 1]) THEN Err(1)
            ELSE Chr((b0 % 32) * 64 + (b[p + 1] % 64), 2)
        ELSE IF b0 >= 224 /\ b0 <= 239 THEN
            IF p + 1 > n THEN Err(1)
            ELSE IF ~SecondOk(b0, b[p + 1]) THEN Err(1)
            ELSE IF p + 2 > n THEN Err(2)
            ELSE IF ~IsContinuation(b[p + 2]) THEN Err(2)
            ELSE Chr((b0 % 16) * 4096 + (b[p + 1] % 64) * 64 + (b[p + 2] % 64), 3)
        ELSE IF b0 >= 240 /\ b0 <= 244 THEN
            IF p + 1 > n THEN Err(1)
            ELSE IF ~SecondOk(b0, b[p + 1]) THEN Err(1)
            ELSE IF p + 2 > n THEN Err(2)
            ELSE IF ~IsContinuation(b[p + 2]) THEN Err(2)
            ELSE IF p + 3 > n THEN Err(3)
            ELSE IF ~IsContinuation(b[p + 3]) THEN Err(3)
            ELSE Chr((b0 % 8) * 262144 + (b[p + 1] % 64) * 4096
                     + (b[p + 2] % 64) * 64 + (b[p + 3] % 64), 4)
        ELSE Err(1)

\* The decoder from position p on, under an error policy: 'ignore' drops the
\* bytes of an error, 'replace' puts U+FFFD for them, 'strict' raises.
RECURSIVE DecodeFrom(_, _, _)
DecodeFrom(b, p, errors) ==
    IF p > Len(b) THEN [ok |-> TRUE, text |-> <<>>]
    ELSE LET d    == DecodeAt(b, p)
             rest == DecodeFrom(b, p + d.adv, errors)
         IN  IF d.ok
             THEN [ok |-> rest.ok, text |-> <<d.cp>> \o rest.text]
             ELSE IF errors = "strict"
             THEN [ok |-> FALSE, text |-> <<>>]
             ELSE IF errors = "replace"
             THEN [ok |-> rest.ok, text |-> <<65533>> \o rest.text]
             ELSE rest

Utf8Decode(b, errors) == DecodeFrom(b, 1, errors)

(***************************************************************************)
(* str.encode('utf-8'), strict: a surrogate code point raises.             *)
(***************************************************************************)
IsSurrogate(c) == c >= 55296 /\ c <= 57343

EncodeChar(c) ==
    IF c < 128 THEN <<c>>
    ELSE IF c < 2048 THEN <<192 + (c \div 64), 128 + (c % 64)>>
    ELSE IF c < 65536
    THEN <<224 + (c \div 4096), 128 + ((c \div 64) % 64), 128 + (c % 64)>>
    ELSE <<240 + (c \div 262144), 128 + ((c \div 4096) % 64),
           128 + ((c \div 64) % 64), 128 + (c % 64)>>

RECURSIVE EncodeFrom(_, _)
EncodeFrom(t, p) ==
    IF p > Len(t) THEN <<>> ELSE EncodeChar(t[p]) \o EncodeFrom(t, p + 1)

\* The wrong codec: UTF-16 with its byte-order mark (code points below U+10000).
Utf16Encode(t) ==
    LET RECURSIVE U(_)
        U(p) == IF p > Len(t) THEN <<>>
                ELSE <<(t[p] % 256), (t[p] \div 256)>> \o U(p + 1)
    IN  [ok |-> TRUE, bytes |-> <<255, 254>> \o U(1)]

Utf8Encode(t) ==
    IF \E p \in 1..Len(t) : IsSurrogate(t[p])
    THEN [ok |-> FALSE, bytes |-> <<>>]
    ELSE [ok |-> TRUE, bytes |-> EncodeFrom(t, 1)]

(***************************************************************************)
(* The regular-expression engine on str: r'(?i)\bmilo\b'.                  *)
(***************************************************************************)
\* \w under the ASCII flag, or of a bytes pattern.
IsAsciiWordChar(c) ==
    \/ c >= 48 /\ c <= 57
    \/ c >= 65 /\ c <= 90
    \/ c = 95
    \/ c >= 97 /\ c <= 122

\* \w of a str pattern: alphanumeric (alphabetic, decimal, digit or numeric)
\* or the underscore.
IsWordChar(c) ==
    \/ c >= 48 /\ c <= 57
    \/ c >= 65 /\ c <= 90
    \/ c = 95
    \/ c >= 97 /\ c <= 122
    \/ c \in {170, 178, 179, 181, 185, 186, 188, 189, 190}
    \/ c >= 192 /\ c <= 214
    \/ c >= 216 /\ c <= 246
    \/ c >= 248 /\ c <= 383

\* The engine's lower-casing of one code point.
ToLower(c) ==
    IF c >= 65 /\ c <= 90 THEN c + 32
    ELSE IF c >= 192 /\ c <= 222 /\ c # 215 THEN c + 32
    ELSE IF c = 304 THEN 105
    ELSE IF c = 376 THEN 255
    ELSE IF /\ \/ c >= 256 /\ c <= 303
               \/ c >= 306 /\ c <= 311
               \/ c >= 330 /\ c <= 375
            /\ c % 2 = 0 THEN c + 1
    ELSE IF /\ \/ c >= 313 /\ c <= 328
               \/ c >= 377 /\ c <= 382
            /\ c % 2 = 1 THEN c + 1
    ELSE c

\* The extra characters the compiler adds to a lower-case literal under
\* IGNORECASE: the i also stands for U+0131, the dotless i, and the s for
\* U+017F, the long s.
CaseFixes(lo) ==
    IF lo = 105 THEN {305}
    ELSE IF lo = 115 THEN {383}
    ELSE {}

\* Whether character c of the text matches literal lit of the pattern.
LiteralMatches(c, lit) ==
    IF IgnoreCase
    THEN LET lo == ToLower(lit)
         IN  ToLower(c) \in ({lo} \cup CaseFixes(lo))
    ELSE c = lit

\* \b at position p (between t[p-1] and t[p]): never in an empty text, else
\* where exactly one of the two neighbours is a word character, the outside
\* of the text counting as a non-word character.
AtBoundary(t, p) ==
    /\ Len(t) > 0
    /\ LET that == IF p > 1 THEN IsWordChar(t[p - 1]) ELSE FALSE
           this == IF p <= Len(t) THEN IsWordChar(t[p]) ELSE FALSE
       IN  this # that

\* Whether the pattern matches at position p of t.
MatchAt(t, p) ==
    /\ p + Len(Target) - 1 <= Len(t)
    /\ WordBounded => AtBoundary(t, p)
    /\ \A k \in 1..Len(Target) : LiteralMatches(t[p + k - 1], Target[k])
    /\ WordBounded => AtBoundary(t, p + Len(Target))

\* search from position p on: the leftmost match start, 0 when there is none.
Search(t, p) ==
    LET S == {q \in p..Len(t) : MatchAt(t, q)}
    IN  IF S = {} THEN 0 ELSE CHOOSE q \in S : \A r \in S : q <= r

\* re.sub: search, copy the text before the match, put the replacement,
\* go on after the match; the rest of the text is copied at the end.
RECURSIVE SubFrom(_, _)
SubFrom(t, p) ==
    LET s == Search(t, p)
    IN  IF s = 0 THEN SubSeq(t, p, Len(t))
        ELSE SubSeq(t, p, s - 1) \o Replacement \o SubFrom(t, s + Len(Target))

ReSub(t) == SubFrom(t, 1)

(***************************************************************************)
(* The commits, the calls and the host that makes them.                    *)
(***************************************************************************)
\* The message bytes the specifications draw from: 'mi', 'lo', 'm', 'MILO',
\* the non-word character '-', the word character '_', an invalid byte (FF),
\* a 2-byte lead (C4) and two continuation bytes (B0, B1); C4 B0 encodes
\* U+0130 and C4 B1 encodes U+0131.
Chunks ==
    { <<109, 105>>, <<108, 111>>, <<109>>, <<77, 73, 76, 79>>,
      <<45>>, <<95>>, <<255>>, <<196>>, <<176>>, <<177>> }

RECURSIVE Flatten(_)
Flatten(cs) == IF cs = <<>> THEN <<>> ELSE Head(cs) \o Flatten(Tail(cs))

Messages ==
    { Flatten(cs) : cs \in UNION { [1..n -> Chunks] : n \in 0..MaxChunks } }

\* The messages of the two commits of the concurrent specification.
ConcMessages ==
    { <<>>,
      <<109, 105, 108, 111>>,
      <<77, 73, 76, 79, 95>>,
      <<109, 105, 255, 108, 111, 45>>,
      <<45, 109, 196, 177, 108, 111>>,
      <<196, 109, 105, 108, 111, 177>> }

Threads == {1, 2}

\* A local variable that is not bound.
Unbound == <<-1>>

\* The frame that holds the local variables msg and new of thread t's call:
\* each call has its own.
SharedFrame(t) == 1

Frame(t) == t

VARIABLES
    commit,   \* commit[t]: the commit object thread t's calls are given
    pc,       \* pc[t]: the line thread t's call is about to run
    msg,      \* msg[f]: the local msg of frame f
    new,      \* new[f]: the local new of frame f
    ret,      \* ret[t]: what thread t's last call returned
    orig,     \* orig[t]: the message commit[t] was constructed with
    first,    \* first[t]: the message after thread t's first call
    again     \* again[t]: thread t has made a second call

vars == <<commit, pc, msg, new, ret, orig, first, again>>

CommitOf(m) == [message |-> m, other |-> "metadata"]

InitWith(m1, m2, pc2) ==
    /\ commit = (1 :> CommitOf(m1)) @@ (2 :> CommitOf(m2))
    /\ pc = (1 :> "line3") @@ (2 :> pc2)
    /\ msg = [f \in Threads |-> Unbound]
    /\ new = [f \in Threads |-> Unbound]
    /\ ret = [t \in Threads |-> "pending"]
    /\ orig = (1 :> m1) @@ (2 :> m2)
    /\ first = [t \in Threads |-> Unbound]
    /\ again = [t \in Threads |-> FALSE]

\* One call, on one commit; the second thread makes none.
Init == \E m \in Messages : InitWith(m, <<>>, "parked")

\* Two threads, each calling on its own commit.
ConcInit == \E m1 \in ConcMessages, m2 \in ConcMessages : InitWith(m1, m2, "line3")

\* Line 3 in a variant that also stores the repaired bytes in the commit at
\* once.
DecodeEarlyWrite(t) ==
    /\ pc[t] = "line3"
    /\ LET d == Utf8Decode(commit[t].message, ErrorsPolicy)
       IN  /\ msg' = [msg EXCEPT ![Frame(t)] = d.text]
           /\ commit' = [commit EXCEPT ![t].message = EncodeFrom(d.text, 1)]
           /\ pc' = [pc EXCEPT ![t] = "line4"]
    /\ UNCHANGED <<new, ret, orig, first, again>>

\* line 3: msg = commit.message.decode('utf-8', errors='ignore')
Decode(t) ==
    /\ pc[t] = "line3"
    /\ LET d == Utf8Decode(commit[t].message, ErrorsPolicy)
       IN  IF d.ok
           THEN /\ msg' = [msg EXCEPT ![Frame(t)] = d.text]
                /\ pc' = [pc EXCEPT ![t] = "line4"]
           ELSE /\ pc' = [pc EXCEPT ![t] = "raised"]
                /\ UNCHANGED msg
    /\ UNCHANGED <<commit, new, ret, orig, first, again>>

\* line 4: new = re.sub(r'(?i)\bmilo\b', 'cleanup', msg)
Substitute(t) ==
    /\ pc[t] = "line4"
    /\ new' = [new EXCEPT ![Frame(t)] = ReSub(msg[Frame(t)])]
    /\ pc' = [pc EXCEPT ![t] = "line5"]
    /\ UNCHANGED <<commit, msg, ret, orig, first, again>>

\* line 5: commit.message = new.encode('utf-8'), and the function's end:
\* it returns None and its frame goes.
EncodeAssign(t) ==
    /\ pc[t] = "line5"
    /\ LET e == Utf8Encode(new[Frame(t)])
       IN  IF e.ok
           THEN /\ commit' = [commit EXCEPT ![t].message = e.bytes]
                /\ pc' = [pc EXCEPT ![t] = "returned"]
                /\ ret' = [ret EXCEPT ![t] = "None"]
                /\ first' = [first EXCEPT
                                ![t] = IF again[t] THEN @ ELSE e.bytes]
           ELSE /\ pc' = [pc EXCEPT ![t] = "raised"]
                /\ UNCHANGED <<commit, ret, first>>
    /\ msg' = [msg EXCEPT ![Frame(t)] = Unbound]
    /\ new' = [new EXCEPT ![Frame(t)] = Unbound]
    /\ UNCHANGED <<orig, again>>

\* The host calls message_callback again on the same commit.
Invoke(t) ==
    /\ pc[t] = "returned"
    /\ pc' = [pc EXCEPT ![t] = "line3"]
    /\ ret' = [ret EXCEPT ![t] = "pending"]
    /\ again' = [again EXCEPT ![t] = TRUE]
    /\ UNCHANGED <<commit, msg, new, orig, first>>

Step(t) == Decode(t) \/ Substitute(t) \/ EncodeAssign(t) \/ Invoke(t)

Next == Step(1)

Spec == Init /\ [][Next]_vars

ConcNext == \E t \in Threads : Step(t)

ConcSpec == ConcInit /\ [][ConcNext]_vars

(***************************************************************************)
(* The notions the properties are stated with. They are written from the   *)
(* statements, independently of the operators above.                       *)
(***************************************************************************)
\* 'cleanup'
Cleanup == <<99, 108, 101, 97, 110, 117, 112>>

\* The k-th letter of m,i,l,o in lower or upper case.
IsLetterOf(c, k) ==
    LET lower == <<109, 105, 108, 111>>
        upper == <<77, 73, 76, 79>>
    IN  c = lower[k] \/ c = upper[k]

\* The same, the i also as U+0130 (capital I with dot) or U+0131 (dotless i).
IsFoldedLetterOf(c, k) ==
    IsLetterOf(c, k) \/ (k = 2 /\ c \in {304, 305})

\* A letter, a digit or an underscore (code points up to U+017F).
IsLetterDigitUnderscore(c) ==
    LET asciiLetter == (c >= 65 /\ c <= 90) \/ (c >= 97 /\ c <= 122)
        digit  == (c >= 48 /\ c <= 57) \/ c \in {178, 179, 185, 188, 189, 190}
        latin  == c \in {170, 181, 186} \/ (c >= 192 /\ c <= 383 /\ c # 215 /\ c # 247)
    IN  asciiLetter \/ digit \/ latin \/ c = 95

\* The four letters start at position p of text t (folded: with the wider i).
OccursAt(t, p, folded) ==
    /\ p >= 1
    /\ p + 3 <= Len(t)
    /\ \A k \in 1..4 :
           IF folded THEN IsFoldedLetterOf(t[p + k - 1], k)
           ELSE IsLetterOf(t[p + k - 1], k)

\* The four characters from p on have no word character next to them.
Delimited(t, p) ==
    /\ p = 1 \/ ~IsLetterDigitUnderscore(t[p - 1])
    /\ p + 4 > Len(t) \/ ~IsLetterDigitUnderscore(t[p + 4])

WholeWordAt(t, p, folded) == OccursAt(t, p, folded) /\ Delimited(t, p)

HasWholeWord(t, folded) == \E p \in 1..Len(t) : WholeWordAt(t, p, folded)

\* The reference scanner: at each position, a whole-word occurrence gives
\* 'cleanup' and is skipped, anything else gives the character itself.
RECURSIVE Scan(_, _, _)
Scan(t, p, folded) ==
    IF p > Len(t) THEN <<>>
    ELSE IF WholeWordAt(t, p, folded) THEN Cleanup \o Scan(t, p + 4, folded)
    ELSE <<t[p]>> \o Scan(t, p + 1, folded)

\* The length of the well-formed UTF-8 sequence that starts at position p of
\* bytes b (the table of well-formed byte sequences), 0 when none does.
WellFormedLen(b, p) ==
    LET In(i, lo, hi) == p + i <= Len(b) /\ b[p + i] >= lo /\ b[p + i] <= hi
        Tail1 == In(1, 128, 191)
        Tail2 == In(2, 128, 191)
        Tail3 == In(3, 128, 191)
    IN  IF In(0, 0, 127) THEN 1
        ELSE IF In(0, 194, 223) /\ Tail1 THEN 2
        ELSE IF In(0, 224, 224) /\ In(1, 160, 191) /\ Tail2 THEN 3
        ELSE IF In(0, 225, 236) /\ Tail1 /\ Tail2 THEN 3
        ELSE IF In(0, 237, 237) /\ In(1, 128, 159) /\ Tail2 THEN 3
        ELSE IF In(0, 238, 239) /\ Tail1 /\ Tail2 THEN 3
        ELSE IF In(0, 240, 240) /\ In(1, 144, 191) /\ Tail2 /\ Tail3 THEN 4
        ELSE IF In(0, 241, 243) /\ Tail1 /\ Tail2 /\ Tail3 THEN 4
        ELSE IF In(0, 244, 244) /\ In(1, 128, 143) /\ Tail2 /\ Tail3 THEN 4
        ELSE 0

\* Bytes b from position p on without the bytes that start no well-formed
\* sequence.
RECURSIVE StripFrom(_, _)
StripFrom(b, p) ==
    IF p > Len(b) THEN <<>>
    ELSE LET k == WellFormedLen(b, p)
         IN  IF k = 0 THEN StripFrom(b, p + 1)
             ELSE SubSeq(b, p, p + k - 1) \o StripFrom(b, p + k)

StripInvalid(b) == StripFrom(b, 1)

WellFormedUtf8(b) == StripInvalid(b) = b

\* The characters of well-formed bytes.
RECURSIVE CharsFrom(_, _)
CharsFrom(b, p) ==
    IF p > Len(b) THEN <<>>
    ELSE LET k == WellFormedLen(b, p)
             c == IF k = 1 THEN b[p]
                  ELSE IF k = 2 THEN (b[p] - 192) * 64 + (b[p + 1] - 128)
                  ELSE IF k = 3 THEN (b[p] - 224) * 4096 + (b[p + 1] - 128) * 64
                                     + (b[p + 2] - 128)
                  ELSE (b[p] - 240) * 262144 + (b[p + 1] - 128) * 4096
                       + (b[p + 2] - 128) * 64 + (b[p + 3] - 128)
         IN  <<c>> \o CharsFrom(b, p + k)

\* The text of a message: the characters of its validly encoded bytes.
ValidText(b) == CharsFrom(StripInvalid(b), 1)

\* The bytes of a message read one byte a character, as the raw bytes are.
RawHasWholeWord(b) ==
    \E p \in 1..Len(b) :
        /\ OccursAt(b, p, FALSE)
        /\ p = 1 \/ ~(b[p - 1] < 128 /\ IsLetterDigitUnderscore(b[p - 1]))
        /\ p + 4 > Len(b) \/ ~(b[p + 4] < 128 /\ IsLetterDigitUnderscore(b[p + 4]))

\* What a call on message b alone leaves as the message.
SoloResult(b) == EncodeFrom(Scan(ValidText(b), 1, TRUE), 1)

Returned(t) == pc[t] = "returned"

(***************************************************************************)
(* The properties.                                                         *)
(***************************************************************************)
\* C1 as stated: the message written back is the UTF-8 encoding of the
\* reference scanner's result on the decoded text, the scanner replacing
\* m,i,l,o in lower or upper case between word boundaries by 'cleanup'.
C1_AsStated ==
    Returned(1) =>
        commit[1].message =
            EncodeFrom(Scan(Utf8Decode(orig[1], "ignore").text, 1, FALSE), 1)

\* C1 amended: the same, with the scanner also taking U+0130 and U+0131 for
\* the i, as the engine's case-insensitive comparison does.
C1_ScannerWithFoldedI ==
    Returned(1) =>
        commit[1].message =
            EncodeFrom(Scan(Utf8Decode(orig[1], "ignore").text, 1, TRUE), 1)

\* '-milo-' has become '-cleanup-'.
C1_Witness ==
    /\ Returned(1)
    /\ orig[1] = <<45, 109, 105, 108, 111, 45>>
    /\ commit[1].message = <<45>> \o Cleanup \o <<45>>

\* C2: an occurrence of m,i,l,o (any case) with a word character right
\* before or after it stays as it is in the output, and one delimited by
\* non-word characters or the ends of the text is 'cleanup' in the output;
\* 'MILO_', 'xmilo'-like and 'milo1'-like texts stay unchanged.
C2_EmbeddedKeptDelimitedReplaced ==
    Returned(1) /\ ~again[1] =>
        LET t   == ValidText(orig[1])
            out == ValidText(commit[1].message)
            \* where position p of the text is in the output: each
            \* replacement before it has put 7 characters for 4
            Shift(p) == 3 * Cardinality({q \in 1..(p - 1) :
                                            WholeWordAt(t, q, TRUE)})
        IN  \A p \in 1..Len(t) :
                OccursAt(t, p, FALSE) =>
                    IF Delimited(t, p)
                    THEN SubSeq(out, p + Shift(p), p + Shift(p) + 6) = Cleanup
                    ELSE SubSeq(out, p + Shift(p), p + Shift(p) + 3)
                             = SubSeq(t, p, p + 3)

\* 'MILO_-MILO' has become 'MILO_-cleanup'.
C2_Witness ==
    /\ Returned(1)
    /\ orig[1] = <<77, 73, 76, 79, 95, 45, 77, 73, 76, 79>>
    /\ commit[1].message = <<77, 73, 76, 79, 95, 45>> \o Cleanup

\* C3 as stated: a message that is valid UTF-8 and has no whole-word
\* m,i,l,o in lower or upper case is left byte for byte as it was.
C3_AsStated ==
    Returned(1) /\ WellFormedUtf8(orig[1])
                /\ ~HasWholeWord(ValidText(orig[1]), FALSE)
        => commit[1].message = orig[1]

\* C3 amended: a message that is valid UTF-8 and has no whole-word m,i,l,o,
\* the i also not as U+0130 or U+0131, is left byte for byte as it was.
C3_UnchangedWithoutFoldedMatch ==
    Returned(1) /\ WellFormedUtf8(orig[1])
                /\ ~HasWholeWord(ValidText(orig[1]), TRUE)
        => commit[1].message = orig[1]

\* 'MILO_' followed by U+0131 went through a call unchanged.
C3_Witness ==
    /\ Returned(1)
    /\ orig[1] = <<77, 73, 76, 79, 95, 196, 177>>
    /\ WellFormedUtf8(orig[1])
    /\ commit[1].message = orig[1]

\* C4: after a second call the message is what the first call left, and
\* the message a call leaves has no whole-word occurrence of m,i,l,o in any
\* case.
C4_Idempotent ==
    Returned(1) =>
        /\ again[1] => commit[1].message = first[1]
        /\ ~HasWholeWord(ValidText(commit[1].message), TRUE)

\* A second call has returned on the 'cleanup' that the first made of 'milo'.
C4_Witness ==
    /\ Returned(1)
    /\ again[1]
    /\ orig[1] = <<109, 105, 108, 111>>
    /\ first[1] = Cleanup
    /\ commit[1].message = Cleanup

\* C5: after a call has returned the message is well-formed UTF-8.
C5_OutputWellFormed == Returned(1) => WellFormedUtf8(commit[1].message)

\* A truncated sequence, a stray continuation byte and an invalid lead byte
\* went in; 'm' came out.
C5_Witness ==
    /\ Returned(1)
    /\ orig[1] = <<196, 109, 177, 255>>
    /\ ~WellFormedUtf8(orig[1])
    /\ commit[1].message = <<109>>

\* C6: no call raises, whatever the bytes of the message: a call is at one
\* of its three lines or has returned, the decoded text and the substituted
\* text hold no surrogate, and the substituted text can be encoded.
C6_Total ==
    /\ pc[1] # "raised"
    /\ pc[1] \in {"line3", "line4", "line5", "returned"}
    /\ pc[1] = "line4" =>
           \A i \in 1..Len(msg[Frame(1)]) :
               msg[Frame(1)][i] >= 0 /\ ~IsSurrogate(msg[Frame(1)][i])
    /\ pc[1] = "line5" =>
           /\ \A i \in 1..Len(new[Frame(1)]) :
                  new[Frame(1)][i] >= 0 /\ ~IsSurrogate(new[Frame(1)][i])
           /\ Utf8Encode(new[Frame(1)]).ok

\* A call on a message of invalid bytes only has returned.
C6_Witness ==
    /\ Returned(1)
    /\ orig[1] = <<177, 196>>
    /\ commit[1].message = <<>>

\* C7: the decoded text is the characters of the validly encoded bytes, in
\* their order, nothing put in for the others; the message written is the
\* one a call on the valid bytes alone writes, and it is those valid bytes
\* themselves when nothing was replaced.
C7_OnlyInvalidBytesDropped ==
    /\ pc[1] = "line4" => msg[Frame(1)] = ValidText(commit[1].message)
    /\ Returned(1) /\ ~again[1] =>
           LET clean == StripInvalid(orig[1])
           IN  /\ commit[1].message = SoloResult(clean)
               /\ ~HasWholeWord(ValidText(clean), TRUE)
                      => commit[1].message = clean

\* 'lo', FF, U+0131: the FF is gone, nothing is in its place.
C7_Witness ==
    /\ Returned(1)
    /\ orig[1] = <<108, 111, 255, 196, 177>>
    /\ commit[1].message = <<108, 111, 196, 177>>

\* C8: the commit changes only in the step of line 5, which puts the whole
\* transformation of the message it read and leaves the other fields; the
\* call then has returned None.
C8_SingleAssignment ==
    [][\A t \in Threads :
          /\ commit'[t] # commit[t] =>
                 /\ pc[t] = "line5" /\ pc'[t] = "returned"
                 /\ commit'[t].other = commit[t].other
                 /\ commit'[t].message = SoloResult(commit[t].message)
          /\ pc'[t] = "returned" => ret'[t] = "None"]_vars

\* A call has returned None and changed the message only.
C8_Witness ==
    /\ Returned(1)
    /\ ret[1] = "None"
    /\ orig[1] = <<95, 255, 45, 77, 73, 76, 79>>
    /\ commit[1] = [message |-> <<95, 45>> \o Cleanup, other |-> "metadata"]

\* C9: under every interleaving of two calls on two commits, a commit whose
\* call has returned holds the message a call on it alone leaves.
C9_NoInterference ==
    \A t \in Threads : Returned(t) => commit[t].message = SoloResult(orig[t])

\* The first call has returned while the second, on another message, is
\* between its read and its write.
C9_Witness ==
    /\ Returned(1)
    /\ pc[2] = "line5"
    /\ orig[1] = <<109, 105, 108, 111>>
    /\ commit[1].message = Cleanup
    /\ orig[2] = <<77, 73, 76, 79, 95>>
    /\ new[Frame(2)] = orig[2]

\* C10: the message written is the scanner's result on the text of the
\* valid bytes; so a message whose raw bytes have no whole-word m,i,l,o but
\* whose valid bytes have one does not come out as its valid bytes.
C10_MatchAfterDrop ==
    Returned(1) /\ ~again[1] =>
        /\ commit[1].message = EncodeFrom(Scan(ValidText(orig[1]), 1, TRUE), 1)
        /\ ~RawHasWholeWord(orig[1]) /\ HasWholeWord(ValidText(orig[1]), FALSE)
               => commit[1].message # StripInvalid(orig[1])

\* 'mi', FF, 'lo', '-' has become 'cleanup-'.
C10_Witness ==
    /\ Returned(1)
    /\ orig[1] = <<109, 105, 255, 108, 111, 45>>
    /\ ~RawHasWholeWord(orig[1])
    /\ commit[1].message = Cleanup \o <<45>>

====
